---- MODULE Spec2Model ----
(***************************************************************************)
(* The voice-action pipeline of the Emoji RPG server: the express.json     *)
(* body parser, the POST /api/voice-action handler of server.ts, and the   *)
(* game-master service (generateGameResponse, getFallbackResponse,         *)
(* getInitialGameState).  The audio service (transcribeAudio,              *)
(* generateSpeech, validateAudioSize) is modelled from its contract.       *)
(***************************************************************************)
EXTENDS Integers, Sequences, FiniteSets, TLC

(***************************************************************************)
(* Bounds of the model.                                                    *)
(***************************************************************************)
MaxTextLen == 1

(***************************************************************************)
(* JavaScript values.  A request field is undefined, a string, or an       *)
(* object.  Text the pipeline inspects character by character (action,     *)
(* transcription) is a sequence of characters; a state label is an atom.   *)
(***************************************************************************)
JSUndefined == [t |-> "undefined", s |-> ""]
JSString(x) == [t |-> "string", s |-> x]
\* {"toString": 1}: an object that cannot be converted to a primitive
JSOpaqueObject == [t |-> "object", s |-> "[object]"]

TextUndefined == [t |-> "undefined", s |-> <<>>]
TextOf(x) == [t |-> "string", s |-> x]

\* mutant: only undefined is rejected, as by a test against undefined
Truthy_DefinedOnly(v) == v.t # "undefined"

\* ToBoolean of a label-valued field
Truthy(v) == v.t = "object" \/ (v.t = "string" /\ v.s # "")
\* mutant: an empty text counts as supplied
TruthyText_DefinedOnly(v) == v.t = "string"

\* ToBoolean of a text-valued field
TruthyText(v) == v.t = "string" /\ v.s # <<>>

Chars == {" ", "a"}
Whitespace == {" "}

RECURSIVE TextsUpTo(_)
TextsUpTo(n) ==
  IF n = 0 THEN {<<>>}
  ELSE LET shorter == TextsUpTo(n - 1)
       IN shorter \cup {Append(x, c) : x \in {y \in shorter : Len(y) = n - 1}, c \in Chars}

GoToTheForest ==
  <<"g", "o", " ", "t", "o", " ", "t", "h", "e", " ", "f", "o", "r", "e", "s", "t">>

Texts == TextsUpTo(MaxTextLen) \cup {GoToTheForest}

\* String.prototype.trim
RECURSIVE TrimStart(_)
TrimStart(x) ==
  IF x = <<>> THEN <<>>
  ELSE IF Head(x) \in Whitespace THEN TrimStart(Tail(x)) ELSE x

RECURSIVE TrimEnd(_)
TrimEnd(x) ==
  IF x = <<>> THEN <<>>
  ELSE IF x[Len(x)] \in Whitespace THEN TrimEnd(SubSeq(x, 1, Len(x) - 1)) ELSE x

\* mutant: the text is measured untrimmed
Trim_Identity(x) == x

Trim(x) == TrimEnd(TrimStart(x))

(***************************************************************************)
(* Scene records (GameResponse).  An object is a function from its own     *)
(* enumerable keys to their values.                                        *)
(***************************************************************************)
SceneKeys == {"emojiScene", "description", "options", "newGameState", "ttsText"}

EmptyObject == [k \in {} |-> ""]

HomeEmojiScene ==
  <<"house", "person", "moneybag", "moneybag", "moneybag",
    "heart", "vs16", "heart", "vs16", "heart", "vs16">>

ForestEmojiScene ==
  <<"tree", "tree", "person", "wolf", "ogre", "tree", "tree">>

HomeFullHealthEntry ==
  [emojiScene |-> HomeEmojiScene,
   description |-> "You are home with 3 gold and full health. What do you want to do?",
   options |-> <<"Fight", "Forest", "Rest">>,
   newGameState |-> "home_full_health",
   ttsText |-> "You are home with full health. What do you want to do?"]

ForestEncounterEntry ==
  [emojiScene |-> ForestEmojiScene,
   description |-> "In the forest you encounter an enemy! Prepare for battle.",
   options |-> <<"Attack", "Defend", "Flee">>,
   newGameState |-> "combat_wolf",
   ttsText |-> "In the forest you encounter an enemy! Prepare for battle."]

\* mutant: the two entries sit under each other's key
Fallbacks_EntriesSwapped ==
  [home_full_health |-> ForestEncounterEntry,
   forest_encounter |-> HomeFullHealthEntry]

\* the fallbacks object literal of getFallbackResponse
Fallbacks ==
  [home_full_health |-> HomeFullHealthEntry,
   forest_encounter |-> ForestEncounterEntry]

\* property names every object literal inherits from Object.prototype
ObjectPrototypeKeys ==
  {"constructor", "toString", "valueOf", "hasOwnProperty", "isPrototypeOf",
   "propertyIsEnumerable", "toLocaleString", "__proto__"}

\* ToPropertyKey(v) succeeds (an opaque object has no primitive value)
HasPropertyKey(v) == v.t # "object"
PropertyKey(v) == IF v.t = "undefined" THEN "undefined" ELSE v.s

\* fallbacks[key]: own entry, else the inherited member, else undefined
FallbackLookup(key) ==
  IF key \in DOMAIN Fallbacks THEN [found |-> TRUE, value |-> Fallbacks[key]]
  ELSE IF key \in ObjectPrototypeKeys THEN [found |-> TRUE, value |-> EmptyObject]
  ELSE [found |-> FALSE, value |-> EmptyObject]

\* the fallback answers the server has given to earlier requests
VARIABLE served

\* the requests of the session answered before the one in hand
VARIABLE turn

\* mutant: the table outlives the call and an earlier fallback answer has
\* overwritten its entries
getFallbackResponse_TableOverwritten(currentGameState) ==
  LET hit == FallbackLookup(PropertyKey(currentGameState))
  IN IF served # {} THEN ForestEncounterEntry
     ELSE IF hit.found THEN hit.value ELSE Fallbacks.home_full_health

\* getFallbackResponse(currentGameState), defined when HasPropertyKey holds
getFallbackResponse(currentGameState) ==
  LET hit == FallbackLookup(PropertyKey(currentGameState))
  IN IF hit.found THEN hit.value ELSE Fallbacks.home_full_health

OpeningScene ==
  [emojiScene |-> HomeEmojiScene,
   description |-> "Welcome to Emoji RPG! You are home with 3 gold and full health.",
   options |-> <<"Fight", "Forest", "Rest">>,
   newGameState |-> "home_full_health",
   ttsText |-> "Welcome to emoji RPG game! You are home with full health. What do you want to do?"]

\* mutant: the opening scene keeps the request's label
getInitialGameState_LabelNotAdvanced == [OpeningScene EXCEPT !.newGameState = "new_game"]

getInitialGameState == OpeningScene

(***************************************************************************)
(* generateGameResponse.  The chat completion is the input: the upstream   *)
(* call throws, returns no content, returns text JSON.parse rejects, or    *)
(* returns text that parses to an object.                                  *)
(***************************************************************************)
GeneratedScene ==
  [emojiScene |-> <<"tree", "person", "sword", "wolf", "tree", "heart", "vs16">>,
   description |-> "A wolf blocks the path.",
   options |-> <<"Attack", "Flee">>,
   newGameState |-> "forest_entrance",
   ttsText |-> "A wolf blocks the path."]

Without(obj, key) == [k \in DOMAIN obj \ {key} |-> obj[k]]

\* records that break the counts the prompt asks for
OneOption == [GeneratedScene EXCEPT !.options = <<"Attack">>]
FiveOptions ==
  [GeneratedScene EXCEPT !.options = <<"Attack", "Flee", "Hide", "Talk", "Wait">>]
ShortEmojiScene == [GeneratedScene EXCEPT !.emojiScene = <<"tree", "wolf">>]
LongEmojiScene ==
  [GeneratedScene EXCEPT !.emojiScene =
     <<"tree", "tree", "tree", "tree", "tree", "tree", "person",
       "wolf", "tree", "tree", "tree", "tree", "tree">>]

ParsedOutputs ==
  {GeneratedScene,
   Without(GeneratedScene, "ttsText"),
   [GeneratedScene EXCEPT !.description = ""],
   [GeneratedScene EXCEPT !.options = <<>>],
   OneOption, FiveOptions, ShortEmojiScene, LongEmojiScene}

\* interface GameResponse: the JSON type each member is declared to have
DeclaredTypes ==
  [emojiScene |-> "string", description |-> "string", options |-> "array",
   newGameState |-> "string", ttsText |-> "string"]

TypesAsDeclared(obj) == [k \in DOMAIN obj |-> DeclaredTypes[k]]

\* JSON.parse checks no type.  options: "run" is kept as the units of the
\* string; emojiScene: 7 is kept as its digit.
IllTypedOutputs ==
  {[value |-> [GeneratedScene EXCEPT !.options = <<"r", "u", "n">>],
    types |-> [DeclaredTypes EXCEPT !.options = "string"]],
   [value |-> [GeneratedScene EXCEPT !.emojiScene = <<"7">>],
    types |-> [DeclaredTypes EXCEPT !.emojiScene = "number"]]}

\* JSON.parse keeps every member: a record that also has members named as
\* the three the handler adds to the response
SceneWithResponseKeys ==
  [emojiScene |-> GeneratedScene.emojiScene,
   description |-> GeneratedScene.description,
   options |-> GeneratedScene.options,
   newGameState |-> GeneratedScene.newGameState,
   ttsText |-> GeneratedScene.ttsText,
   audioData |-> "Z2VuZXJhdGVk",
   transcription |-> <<"x">>,
   fallbackUsed |-> TRUE]

Completions ==
  {[kind |-> k, value |-> EmptyObject, types |-> EmptyObject] :
     k \in {"error", "empty", "unparseable"}}
    \cup {[kind |-> "json", value |-> v, types |-> TypesAsDeclared(v)] :
            v \in ParsedOutputs}
    \cup {[kind |-> "json", value |-> o.value, types |-> o.types] :
            o \in IllTypedOutputs}
    \cup {[kind |-> "json", value |-> SceneWithResponseKeys, types |-> DeclaredTypes]}

\* [...value]: a string or an array spreads, anything else throws TypeError
Iterable(type) == type \in {"string", "array"}

\* !obj[key]: the key is missing or holds an empty string; an array is truthy
Falsy(obj, key) ==
  \/ key \notin DOMAIN obj
  \/ key = "emojiScene" /\ obj[key] = <<>>
  \/ key \in {"description", "newGameState", "ttsText"} /\ obj[key] = ""

\* mutant: a count outside the range the prompt asks for fails the call
generateGameResponse_StrictCounts(playerAction, currentGameState, completion) ==
  IF ~HasPropertyKey(currentGameState) THEN [ok |-> FALSE, value |-> EmptyObject]
  ELSE IF completion.kind # "json" THEN [ok |-> FALSE, value |-> EmptyObject]
  ELSE IF \E key \in SceneKeys : Falsy(completion.value, key)
       THEN [ok |-> FALSE, value |-> EmptyObject]
  ELSE IF ~Iterable(completion.types.emojiScene)
       THEN [ok |-> FALSE, value |-> EmptyObject]
  ELSE IF \/ Len(completion.value.emojiScene) \notin 6..12
          \/ Len(completion.value.options) \notin 2..4
       THEN [ok |-> FALSE, value |-> EmptyObject]
  ELSE [ok |-> TRUE, value |-> completion.value]

\* the template literal of the user message converts currentGameState to a
\* string inside the try block, before the upstream call is made; the counts
\* of emoji and options are only logged
generateGameResponse(playerAction, currentGameState, completion) ==
  IF ~HasPropertyKey(currentGameState) THEN [ok |-> FALSE, value |-> EmptyObject]
  ELSE IF completion.kind # "json" THEN [ok |-> FALSE, value |-> EmptyObject]
  ELSE IF \E key \in SceneKeys : Falsy(completion.value, key)
       THEN [ok |-> FALSE, value |-> EmptyObject]
  ELSE IF ~Iterable(completion.types.emojiScene)
       THEN [ok |-> FALSE, value |-> EmptyObject]
  ELSE [ok |-> TRUE, value |-> completion.value]

(***************************************************************************)
(* The audio service, from its contract.                                   *)
(***************************************************************************)
MaxAudioBytes == 10 * 1024 * 1024

\* length of the base64 text of n bytes
Base64Len(n) == 4 * ((n + 2) \div 3)

\* audioData carries the number of bytes its base64 text decodes to
validateAudioSize(audioData) == audioData.s <= MaxAudioBytes

SpeechBase64 == "c3BlZWNo"

\* message of the error transcribeAudio throws
TranscriptionErrorMessage == "Failed to transcribe audio"

(***************************************************************************)
(* express.json({ limit: '10mb' })                                         *)
(***************************************************************************)
JsonBodyLimit == 10 * 1024 * 1024

TruthyAudio(audioData) == audioData.t = "string" /\ Base64Len(audioData.s) > 0

\* the JSON text holds at least the braces and the audioData member
BodyLength(request) ==
  2 + (IF request.audioData.t = "string"
       THEN 14 + Base64Len(request.audioData.s) ELSE 0)

(***************************************************************************)
(* Response bodies.  { ...base, k1: v1, ... } followed by JSON.stringify,  *)
(* which drops the members whose value is undefined.                       *)
(***************************************************************************)
JSBoolean(b) == [t |-> "boolean", s |-> b]

\* mutant: a member whose value is undefined does not shadow the base's
JsonBody_UndefinedSkipped(base, overrides) ==
  LET kept == {k \in DOMAIN overrides : overrides[k].t # "undefined"}
  IN [k \in DOMAIN base \cup kept |->
        IF k \in kept THEN overrides[k].s ELSE base[k]]

JsonBody(base, overrides) ==
  LET kept == {k \in DOMAIN overrides : overrides[k].t # "undefined"}
  IN [k \in (DOMAIN base \ DOMAIN overrides) \cup kept |->
        IF k \in DOMAIN overrides THEN overrides[k].s ELSE base[k]]

\* object.ttsText as a JavaScript value
TtsTextOf(obj) ==
  IF "ttsText" \in DOMAIN obj THEN JSString(obj.ttsText) ELSE JSUndefined

Sent(status, body) ==
  [sent |-> <<[status |-> status, body |-> body]>>, left |-> 0, unhandled |-> FALSE]

\* the catch block of the handler and the .catch of the async function, with
\* k calls of res.json still to throw
CatchAllOutcome(gameState, message, k) ==
  LET key == IF Truthy(gameState) THEN gameState ELSE JSString("home_full_health")
      built == HasPropertyKey(key)
      k1 == IF built /\ k > 0 THEN k - 1 ELSE k
  IN IF built /\ k = 0
     THEN Sent(500, JsonBody(getFallbackResponse(key),
                             [fallbackUsed |-> JSBoolean(TRUE),
                              transcription |-> TextUndefined]))
     ELSE IF k1 = 0
     THEN Sent(500, [error |-> "Internal server error", details |-> message])
     ELSE IF k1 = 1
     THEN Sent(500, [error |-> "Internal server error", details |-> "Error: res.json"])
     ELSE [sent |-> <<>>, left |-> k1 - 2, unhandled |-> TRUE]

\* res.status(status).json(body) inside the outer try block
RespondOutcome(gameState, status, body, k) ==
  IF k = 0 THEN Sent(status, body)
  ELSE CatchAllOutcome(gameState, "res.json", k - 1)

(***************************************************************************)
(* State: one handler invocation per request.                              *)
(***************************************************************************)
VARIABLES
  openaiKey,     \* process.env.OPENAI_KEY once dotenv has loaded
  server,        \* the process: loading its modules, listening, or exited
  pc,            \* position of the request in the pipeline
  req,           \* req.body
  resThrows,     \* calls of res.json that will throw before one succeeds
  playerAction,  \* let playerAction
  transcription, \* let transcription
  fallbackUsed,  \* let fallbackUsed
  gameResponse,  \* let gameResponse
  transcribeCalls, \* number of calls of transcribeAudio
  generateCalls, \* arguments of the calls of generateGameResponse
  speechCalls,   \* arguments of the calls of generateSpeech
  transcribeResults, \* what the calls of transcribeAudio settled to
  generateResults, \* what the calls of generateGameResponse settled to
  speechResults, \* what the calls of generateSpeech settled to
  hangs,         \* for each upstream call, whether the service never answers it
  parked,        \* the other request in flight, while this one is being run
  sent,          \* the responses written for the request
  unhandled      \* the promise chain ended in an unhandled rejection

vars == <<openaiKey, server, served, turn, parked, pc, req, resThrows, playerAction, transcription, fallbackUsed,
          gameResponse, transcribeCalls, generateCalls, speechCalls,
          transcribeResults, generateResults, speechResults, hangs, sent,
          unhandled>>

process == <<openaiKey, server>>
locals == <<playerAction, transcription, fallbackUsed, gameResponse>>
calls == <<transcribeCalls, generateCalls, speechCalls>>
results == <<transcribeResults, generateResults, speechResults>>

MaxResThrows == 4

GameStates ==
  {JSUndefined, JSOpaqueObject}
    \cup {JSString(x) : x \in {"", "initial", "new_game", "home_full_health",
                               "forest_encounter", "combat_wolf", "constructor"}}

ActionInputs == {TextUndefined} \cup {TextOf(x) : x \in Texts}

AudioInputs ==
  {[t |-> "undefined", s |-> 0]}
    \cup {[t |-> "string", s |-> n] : n \in {0, 3, MaxAudioBytes, MaxAudioBytes + 1}}

NoRequest == [gameState |-> JSUndefined, action |-> TextUndefined,
              audioData |-> [t |-> "undefined", s |-> 0]]

\* what one invocation of the handler holds
Invocation ==
  [pc |-> pc,
   req |-> req,
   resThrows |-> resThrows,
   playerAction |-> playerAction,
   transcription |-> transcription,
   fallbackUsed |-> fallbackUsed,
   gameResponse |-> gameResponse,
   transcribeCalls |-> transcribeCalls,
   generateCalls |-> generateCalls,
   speechCalls |-> speechCalls,
   transcribeResults |-> transcribeResults,
   generateResults |-> generateResults,
   speechResults |-> speechResults,
   hangs |-> hangs,
   sent |-> sent,
   unhandled |-> unhandled]

\* an invocation that has not received its request
FreshInvocation ==
  [pc |-> "idle",
   req |-> NoRequest,
   resThrows |-> 0,
   playerAction |-> TextUndefined,
   transcription |-> TextUndefined,
   fallbackUsed |-> FALSE,
   gameResponse |-> EmptyObject,
   transcribeCalls |-> 0,
   generateCalls |-> <<>>,
   speechCalls |-> <<>>,
   transcribeResults |-> <<>>,
   generateResults |-> <<>>,
   speechResults |-> <<>>,
   hangs |-> <<>>,
   sent |-> <<>>,
   unhandled |-> FALSE]

\* no request has arrived
NoRequestYet ==
  /\ served = {}
  /\ turn = 0
  /\ parked = FreshInvocation
  /\ pc = "idle"
  /\ req = NoRequest
  /\ resThrows = 0
  /\ playerAction = TextUndefined
  /\ transcription = TextUndefined
  /\ fallbackUsed = FALSE
  /\ gameResponse = EmptyObject
  /\ transcribeCalls = 0
  /\ generateCalls = <<>>
  /\ speechCalls = <<>>
  /\ transcribeResults = <<>>
  /\ generateResults = <<>>
  /\ speechResults = <<>>
  /\ hangs = <<>>
  /\ sent = <<>>
  /\ unhandled = FALSE

\* the server is listening, its modules loaded with a key
Init ==
  /\ openaiKey = JSString("sk-key")
  /\ server = "listening"
  /\ NoRequestYet

\* the handler returns after an attempt to respond
Finish(outcome) ==
  /\ pc' = "done"
  /\ sent' = outcome.sent
  /\ resThrows' = outcome.left
  /\ unhandled' = outcome.unhandled
  /\ UNCHANGED hangs

\* an upstream call leaves the process; the service answers it or never does
CallUpstream == \E h \in BOOLEAN : hangs' = Append(hangs, h)

\* the service never answers the pending upstream call
Hung == hangs[Len(hangs)]

\* mutant: the client is built with its request timeout switched off
ClientTimesOut_Never == FALSE

\* new OpenAI({ apiKey }) passes no timeout option, so the request timeout
\* the SDK applies by default ends a call the service never answers
ClientTimesOut == TRUE

\* the pending upstream call settles: by an answer, or by the client timeout
Settles == Hung => ClientTimesOut

\* mutant: the generator is given the state's table label
CallGenerate_StateInferred(action) ==
  /\ pc' = "awaitGenerate"
  /\ generateCalls' = Append(generateCalls,
       [playerAction |-> action,
        currentGameState |->
          IF req.gameState = JSString("forest_encounter") THEN req.gameState
          ELSE JSString("home_full_health")])
  /\ CallUpstream

\* gameResponse = await generateGameResponse(playerAction, request.gameState)
CallGenerate(action) ==
  /\ pc' = "awaitGenerate"
  /\ generateCalls' = Append(generateCalls,
       [playerAction |-> action, currentGameState |-> req.gameState])
  /\ CallUpstream

\* mutant: the input fallback is not flagged
AudioError_FlagNotSet(message, k, assigned) ==
  IF TruthyText(req.action)
  THEN /\ playerAction' = req.action
       /\ CallGenerate(req.action)
       /\ resThrows' = k
       /\ UNCHANGED <<fallbackUsed, sent, unhandled>>
  ELSE /\ Finish(RespondOutcome(req.gameState, 400,
             [error |-> "Failed to process audio and no text fallback provided",
              details |-> message], k))
       /\ playerAction' = assigned
       /\ UNCHANGED <<fallbackUsed, generateCalls>>

\* mutant: the 400 body of a failed audio input carries the flag as well
AudioError_FlaggedError(message, k, assigned) ==
  IF TruthyText(req.action)
  THEN /\ playerAction' = req.action
       /\ fallbackUsed' = TRUE
       /\ CallGenerate(req.action)
       /\ resThrows' = k
       /\ UNCHANGED <<sent, unhandled>>
  ELSE /\ Finish(RespondOutcome(req.gameState, 400,
             [error |-> "Failed to process audio and no text fallback provided",
              details |-> message,
              fallbackUsed |-> TRUE], k))
       /\ playerAction' = assigned
       /\ UNCHANGED <<fallbackUsed, generateCalls>>

\* catch (audioError): the text action replaces the audio, or the request
\* fails; assigned is what the try block left in playerAction
AudioError(message, k, assigned) ==
  IF TruthyText(req.action)
  THEN /\ playerAction' = req.action
       /\ fallbackUsed' = TRUE
       /\ CallGenerate(req.action)
       /\ resThrows' = k
       /\ UNCHANGED <<sent, unhandled>>
  ELSE /\ Finish(RespondOutcome(req.gameState, 400,
             [error |-> "Failed to process audio and no text fallback provided",
              details |-> message], k))
       /\ playerAction' = assigned
       /\ UNCHANGED <<fallbackUsed, generateCalls>>

(***************************************************************************)
(* A client posts a request.                                               *)
(***************************************************************************)
Receive(maxThrows) ==
  /\ server = "listening"
  /\ pc = "idle"
  /\ \E g \in GameStates, a \in ActionInputs, d \in AudioInputs, k \in 0..maxThrows :
       /\ req' = [gameState |-> g, action |-> a, audioData |-> d]
       /\ resThrows' = k
  /\ pc' = "parse"
  /\ UNCHANGED <<process, served, turn, parked, locals, calls, results, hangs, sent, unhandled>>

(***************************************************************************)
(* app.use(express.json({ limit: '10mb' })): a body over the limit is      *)
(* answered 413 by the default error handler and never reaches the route.  *)
(***************************************************************************)
JsonParser ==
  /\ pc = "parse"
  /\ IF BodyLength(req) > JsonBodyLimit
     THEN Finish(Sent(413, EmptyObject))
     ELSE /\ pc' = "handler"
          /\ UNCHANGED <<resThrows, hangs, sent, unhandled>>
  /\ UNCHANGED <<process, served, turn, parked, req, locals, calls, results>>

\* mutant: only "new_game" opens a session
HandlerEntry_NewGameOnly ==
  /\ pc = "handler"
  /\ LET request == req
         k == resThrows
     IN IF ~Truthy(request.gameState)
        THEN /\ Finish(RespondOutcome(request.gameState, 400,
                   [error |-> "gameState is required"], k))
             /\ UNCHANGED <<locals, calls>>
        ELSE IF request.gameState = JSString("new_game")
        THEN /\ pc' = "awaitInitialSpeech"
             /\ speechCalls' = Append(speechCalls, TtsTextOf(getInitialGameState))
             /\ CallUpstream
             /\ UNCHANGED <<locals, transcribeCalls, generateCalls,
                            resThrows, sent, unhandled>>
        ELSE IF TruthyAudio(request.audioData)
        THEN IF ~validateAudioSize(request.audioData)
             THEN IF k = 0
                  THEN /\ Finish(Sent(400, [error |-> "Audio file too large (max 10MB)"]))
                       /\ UNCHANGED <<locals, calls>>
                  ELSE /\ AudioError("res.json", k - 1, playerAction)
                       /\ UNCHANGED <<transcription, gameResponse,
                                      transcribeCalls, speechCalls>>
             ELSE /\ pc' = "awaitTranscribe"
                  /\ transcribeCalls' = transcribeCalls + 1
                  /\ CallUpstream
                  /\ UNCHANGED <<locals, generateCalls, speechCalls,
                                 resThrows, sent, unhandled>>
        ELSE IF TruthyText(request.action)
        THEN /\ playerAction' = request.action
             /\ CallGenerate(request.action)
             /\ UNCHANGED <<transcription, fallbackUsed, gameResponse,
                            transcribeCalls, speechCalls, resThrows, sent, unhandled>>
        ELSE /\ Finish(RespondOutcome(request.gameState, 400,
                   [error |-> "Either audioData or action must be provided"], k))
             /\ UNCHANGED <<locals, calls>>
  /\ UNCHANGED <<process, served, turn, parked, req, results>>

(***************************************************************************)
(* The handler up to its first await.                                      *)
(***************************************************************************)
HandlerEntry ==
  /\ pc = "handler"
  /\ LET request == req
         k == resThrows
     IN IF ~Truthy(request.gameState)
        THEN /\ Finish(RespondOutcome(request.gameState, 400,
                   [error |-> "gameState is required"], k))
             /\ UNCHANGED <<locals, calls>>
        ELSE IF request.gameState \in {JSString("initial"), JSString("new_game")}
        THEN /\ pc' = "awaitInitialSpeech"
             /\ speechCalls' = Append(speechCalls, TtsTextOf(getInitialGameState))
             /\ CallUpstream
             /\ UNCHANGED <<locals, transcribeCalls, generateCalls,
                            resThrows, sent, unhandled>>
        ELSE IF TruthyAudio(request.audioData)
        THEN IF ~validateAudioSize(request.audioData)
             THEN IF k = 0
                  THEN /\ Finish(Sent(400, [error |-> "Audio file too large (max 10MB)"]))
                       /\ UNCHANGED <<locals, calls>>
                  ELSE /\ AudioError("res.json", k - 1, playerAction)
                       /\ UNCHANGED <<transcription, gameResponse,
                                      transcribeCalls, speechCalls>>
             ELSE /\ pc' = "awaitTranscribe"
                  /\ transcribeCalls' = transcribeCalls + 1
                  /\ CallUpstream
                  /\ UNCHANGED <<locals, generateCalls, speechCalls,
                                 resThrows, sent, unhandled>>
        ELSE IF TruthyText(request.action)
        THEN /\ playerAction' = request.action
             /\ CallGenerate(request.action)
             /\ UNCHANGED <<transcription, fallbackUsed, gameResponse,
                            transcribeCalls, speechCalls, resThrows, sent, unhandled>>
        ELSE /\ Finish(RespondOutcome(request.gameState, 400,
                   [error |-> "Either audioData or action must be provided"], k))
             /\ UNCHANGED <<locals, calls>>
  /\ UNCHANGED <<process, served, turn, parked, req, results>>

\* mutant: the transcription is used whatever it holds
TranscribeReturns_BlankAccepted ==
  /\ pc = "awaitTranscribe"
  /\ Settles
  /\ \/ /\ AudioError(TranscriptionErrorMessage, resThrows, playerAction)
        /\ transcribeResults' = Append(transcribeResults, [ok |-> FALSE, text |-> <<>>])
        /\ UNCHANGED transcription
     \/ \E text \in Texts :
          /\ ~Hung
          /\ transcription' = TextOf(text)
          /\ transcribeResults' = Append(transcribeResults, [ok |-> TRUE, text |-> text])
          /\ IF FALSE
             THEN AudioError("Empty transcription", resThrows, TextOf(text))
             ELSE /\ playerAction' = TextOf(text)
                  /\ CallGenerate(TextOf(text))
                  /\ UNCHANGED <<fallbackUsed, resThrows, sent, unhandled>>
  /\ UNCHANGED <<process, served, turn, parked, req, gameResponse, transcribeCalls, speechCalls, generateResults,
                 speechResults>>

\* mutant: a typed action takes precedence over what was heard
TranscribeReturns_PrefersAction ==
  /\ pc = "awaitTranscribe"
  /\ Settles
  /\ \/ /\ AudioError(TranscriptionErrorMessage, resThrows, playerAction)
        /\ transcribeResults' = Append(transcribeResults, [ok |-> FALSE, text |-> <<>>])
        /\ UNCHANGED transcription
     \/ \E text \in Texts :
          /\ ~Hung
          /\ transcription' = TextOf(text)
          /\ transcribeResults' = Append(transcribeResults, [ok |-> TRUE, text |-> text])
          /\ IF text = <<>> \/ Len(Trim(text)) = 0
             THEN AudioError("Empty transcription", resThrows, TextOf(text))
             ELSE /\ playerAction' = IF TruthyText(req.action) THEN req.action ELSE TextOf(text)
                  /\ CallGenerate(IF TruthyText(req.action) THEN req.action ELSE TextOf(text))
                  /\ UNCHANGED <<fallbackUsed, resThrows, sent, unhandled>>
  /\ UNCHANGED <<process, served, turn, parked, req, gameResponse, transcribeCalls, speechCalls, generateResults,
                 speechResults>>

(***************************************************************************)
(* transcribeAudio settles: it throws, or returns a text.                  *)
(***************************************************************************)
TranscribeReturns ==
  /\ pc = "awaitTranscribe"
  /\ Settles
  /\ \/ /\ AudioError(TranscriptionErrorMessage, resThrows, playerAction)
        /\ transcribeResults' = Append(transcribeResults, [ok |-> FALSE, text |-> <<>>])
        /\ UNCHANGED transcription
     \/ \E text \in Texts :
          /\ ~Hung
          /\ transcription' = TextOf(text)
          /\ transcribeResults' = Append(transcribeResults, [ok |-> TRUE, text |-> text])
          /\ IF text = <<>> \/ Len(Trim(text)) = 0
             THEN AudioError("Empty transcription", resThrows, TextOf(text))
             ELSE /\ playerAction' = TextOf(text)
                  /\ CallGenerate(TextOf(text))
                  /\ UNCHANGED <<fallbackUsed, resThrows, sent, unhandled>>
  /\ UNCHANGED <<process, served, turn, parked, req, gameResponse, transcribeCalls, speechCalls, generateResults,
                 speechResults>>

\* mutant: synthesis is given the generator's text also when the table answers
GenerateReturns_SpeaksGeneratorText ==
  /\ pc = "awaitGenerate"
  /\ Settles
  /\ \E completion \in Completions :
       LET result == generateGameResponse(playerAction.s, req.gameState, completion)
           adopted == IF result.ok THEN result.value
                      ELSE getFallbackResponse(req.gameState)
       IN /\ Hung => completion.kind = "error"
          /\ generateResults' = Append(generateResults,
               [ok |-> result.ok, value |-> result.value, completion |-> completion])
          /\ IF ~result.ok /\ ~HasPropertyKey(req.gameState)
             THEN /\ Finish(CatchAllOutcome(req.gameState,
                        "Cannot convert object to primitive value", resThrows))
                  /\ UNCHANGED <<gameResponse, fallbackUsed, speechCalls>>
             ELSE /\ gameResponse' = adopted
                  /\ fallbackUsed' = (fallbackUsed \/ ~result.ok)
                  /\ speechCalls' = Append(speechCalls, TtsTextOf(result.value))
                  /\ CallUpstream
                  /\ pc' = "awaitSpeech"
                  /\ UNCHANGED <<resThrows, sent, unhandled>>
  /\ UNCHANGED <<process, served, turn, parked, req, playerAction, transcription, transcribeCalls, generateCalls,
                 transcribeResults, speechResults>>

\* mutant: a failed generation is tried once more before the table answers
GenerateReturns_RetriesOnce ==
  /\ pc = "awaitGenerate"
  /\ Settles
  /\ \E completion \in Completions :
       LET result == generateGameResponse(playerAction.s, req.gameState, completion)
           adopted == IF result.ok THEN result.value
                      ELSE getFallbackResponse(req.gameState)
       IN /\ Hung => completion.kind = "error"
          /\ generateResults' = Append(generateResults,
               [ok |-> result.ok, value |-> result.value, completion |-> completion])
          /\ IF ~result.ok /\ Len(generateCalls) < 2
             THEN /\ CallGenerate(playerAction)
                  /\ UNCHANGED <<gameResponse, fallbackUsed, speechCalls,
                                 resThrows, sent, unhandled>>
             ELSE IF ~result.ok /\ ~HasPropertyKey(req.gameState)
             THEN /\ Finish(CatchAllOutcome(req.gameState,
                        "Cannot convert object to primitive value", resThrows))
                  /\ UNCHANGED <<gameResponse, fallbackUsed, speechCalls,
                                 generateCalls>>
             ELSE /\ gameResponse' = adopted
                  /\ fallbackUsed' = (fallbackUsed \/ ~result.ok)
                  /\ speechCalls' = Append(speechCalls, TtsTextOf(adopted))
                  /\ CallUpstream
                  /\ pc' = "awaitSpeech"
                  /\ UNCHANGED <<resThrows, sent, unhandled, generateCalls>>
  /\ UNCHANGED <<process, served, turn, parked, req, playerAction, transcription, transcribeCalls,
                 transcribeResults, speechResults>>

\* mutant: the adopted record is cut down to four options
GenerateReturns_TrimsOptions ==
  /\ pc = "awaitGenerate"
  /\ Settles
  /\ \E completion \in Completions :
       LET result == generateGameResponse(playerAction.s, req.gameState, completion)
           adopted == IF result.ok
                      THEN [result.value EXCEPT !.options =
                              IF Len(@) > 4 THEN SubSeq(@, 1, 4) ELSE @]
                      ELSE getFallbackResponse(req.gameState)
       IN /\ Hung => completion.kind = "error"
          /\ generateResults' = Append(generateResults,
               [ok |-> result.ok, value |-> result.value, completion |-> completion])
          /\ IF ~result.ok /\ ~HasPropertyKey(req.gameState)
             THEN /\ Finish(CatchAllOutcome(req.gameState,
                        "Cannot convert object to primitive value", resThrows))
                  /\ UNCHANGED <<gameResponse, fallbackUsed, speechCalls>>
             ELSE /\ gameResponse' = adopted
                  /\ fallbackUsed' = (fallbackUsed \/ ~result.ok)
                  /\ speechCalls' = Append(speechCalls, TtsTextOf(adopted))
                  /\ CallUpstream
                  /\ pc' = "awaitSpeech"
                  /\ UNCHANGED <<resThrows, sent, unhandled>>
  /\ UNCHANGED <<process, served, turn, parked, req, playerAction, transcription, transcribeCalls, generateCalls,
                 transcribeResults, speechResults>>

(***************************************************************************)
(* generateGameResponse settles; on failure the fallback table answers.    *)
(* The handler then calls generateSpeech(gameResponse.ttsText).            *)
(***************************************************************************)
GenerateReturns ==
  /\ pc = "awaitGenerate"
  /\ Settles
  /\ \E completion \in Completions :
       LET result == generateGameResponse(playerAction.s, req.gameState, completion)
           adopted == IF result.ok THEN result.value
                      ELSE getFallbackResponse(req.gameState)
       IN /\ Hung => completion.kind = "error"
          /\ generateResults' = Append(generateResults,
               [ok |-> result.ok, value |-> result.value, completion |-> completion])
          /\ IF ~result.ok /\ ~HasPropertyKey(req.gameState)
             THEN /\ Finish(CatchAllOutcome(req.gameState,
                        "Cannot convert object to primitive value", resThrows))
                  /\ UNCHANGED <<gameResponse, fallbackUsed, speechCalls>>
             ELSE /\ gameResponse' = adopted
                  /\ fallbackUsed' = (fallbackUsed \/ ~result.ok)
                  /\ speechCalls' = Append(speechCalls, TtsTextOf(adopted))
                  /\ CallUpstream
                  /\ pc' = "awaitSpeech"
                  /\ UNCHANGED <<resThrows, sent, unhandled>>
  /\ UNCHANGED <<process, served, turn, parked, req, playerAction, transcription, transcribeCalls, generateCalls,
                 transcribeResults, speechResults>>

\* mutant: a failed synthesis is not caught and reaches the catch-all
SpeechReturns_SynthesisFatal ==
  /\ pc = "awaitSpeech"
  /\ Settles
  /\ \/ /\ ~Hung
        /\ speechResults' = Append(speechResults, [ok |-> TRUE])
        /\ Finish(RespondOutcome(req.gameState, 200,
                 JsonBody(gameResponse,
                          [audioData |-> JSString(SpeechBase64),
                           transcription |-> transcription,
                           fallbackUsed |-> JSBoolean(fallbackUsed)]),
                 resThrows))
     \/ /\ speechResults' = Append(speechResults, [ok |-> FALSE])
        /\ Finish(CatchAllOutcome(req.gameState, "Failed to generate speech",
                                   resThrows))
  /\ UNCHANGED <<process, served, turn, parked, req, locals, calls, transcribeResults, generateResults>>

\* mutant: a response without audio is flagged as a fallback
SpeechReturns_FlagsSilence ==
  /\ pc = "awaitSpeech"
  /\ Settles
  /\ \E audioData \in {JSUndefined, JSString(SpeechBase64)} :
       /\ Hung => audioData = JSUndefined
       /\ speechResults' = Append(speechResults, [ok |-> audioData # JSUndefined])
       /\ Finish(RespondOutcome(req.gameState, 200,
                JsonBody(gameResponse,
                         [audioData |-> audioData,
                          transcription |-> transcription,
                          fallbackUsed |->
                            JSBoolean(fallbackUsed \/ audioData = JSUndefined)]),
                resThrows))
  /\ UNCHANGED <<process, served, turn, parked, req, locals, calls, transcribeResults, generateResults>>

(***************************************************************************)
(* generateSpeech settles on the normal path; the response is assembled    *)
(* and written.                                                            *)
(***************************************************************************)
SpeechReturns ==
  /\ pc = "awaitSpeech"
  /\ Settles
  /\ \E audioData \in {JSUndefined, JSString(SpeechBase64)} :
       /\ Hung => audioData = JSUndefined
       /\ speechResults' = Append(speechResults, [ok |-> audioData # JSUndefined])
       /\ Finish(RespondOutcome(req.gameState, 200,
                JsonBody(gameResponse,
                         [audioData |-> audioData,
                          transcription |-> transcription,
                          fallbackUsed |-> JSBoolean(fallbackUsed)]),
                resThrows))
  /\ UNCHANGED <<process, served, turn, parked, req, locals, calls, transcribeResults, generateResults>>

(***************************************************************************)
(* generateSpeech settles on the new-session path.                         *)
(***************************************************************************)
InitialSpeechReturns ==
  /\ pc = "awaitInitialSpeech"
  /\ Settles
  /\ \E audioData \in {JSUndefined, JSString(SpeechBase64)} :
       /\ Hung => audioData = JSUndefined
       /\ speechResults' = Append(speechResults, [ok |-> audioData # JSUndefined])
       /\ Finish(RespondOutcome(req.gameState, 200,
                JsonBody(getInitialGameState,
                         [audioData |-> audioData,
                          transcription |-> TextUndefined,
                          fallbackUsed |-> JSBoolean(FALSE)]),
                resThrows))
  /\ UNCHANGED <<process, served, turn, parked, req, locals, calls, transcribeResults, generateResults>>

Pipeline ==
  \/ JsonParser
  \/ HandlerEntry
  \/ TranscribeReturns
  \/ GenerateReturns
  \/ SpeechReturns
  \/ InitialSpeechReturns

\* res.json writes every response it is asked to write
Next == Receive(0) \/ Pipeline

Spec == Init /\ [][Next]_vars

\* res.json may throw
NextW == Receive(MaxResThrows) \/ Pipeline

SpecW == Init /\ [][NextW]_vars

\* the event loop runs every continuation that is ready, and every upstream
\* call that can settle does settle
SpecLive == Init /\ [][Next]_vars /\ WF_vars(Pipeline)

(***************************************************************************)
(* The server takes the next request: a new invocation of the handler,     *)
(* whose let variables start afresh.  The answer just given is remembered  *)
(* when the fallback table supplied its scene.                             *)
(***************************************************************************)
NextRequest ==
  /\ pc = "done"
  /\ UNCHANGED <<process, turn>>
  /\ served' = IF Len(sent) = 1 /\ sent[1].status = 200
                  /\ \E i \in 1..Len(generateResults) : ~generateResults[i].ok
               THEN served \cup {[gameState |-> req.gameState,
                                  scene |-> [k \in DOMAIN sent[1].body \cap SceneKeys
                                               |-> sent[1].body[k]]]}
               ELSE served
  /\ pc' = "idle"
  /\ parked' = parked
  /\ req' = NoRequest
  /\ resThrows' = 0
  /\ playerAction' = TextUndefined
  /\ transcription' = TextUndefined
  /\ fallbackUsed' = FALSE
  /\ gameResponse' = EmptyObject
  /\ transcribeCalls' = 0
  /\ generateCalls' = <<>>
  /\ speechCalls' = <<>>
  /\ transcribeResults' = <<>>
  /\ generateResults' = <<>>
  /\ speechResults' = <<>>
  /\ hangs' = <<>>
  /\ sent' = <<>>
  /\ unhandled' = FALSE

\* one request after another
NextSession == Next \/ NextRequest

SpecSession == Init /\ [][NextSession]_vars

(***************************************************************************)
(* Two requests in flight.  A handler runs until it awaits or returns;     *)
(* the event loop then runs whichever invocation is ready.  Every          *)
(* variable of the handler is declared inside it, so each invocation has   *)
(* its own.                                                                *)
(***************************************************************************)
\* mutant: fallbackUsed is declared outside the handler and shared
Switch_SharedFlag ==
  /\ pc # "handler"
  /\ parked' = Invocation
  /\ pc' = parked.pc
  /\ req' = parked.req
  /\ resThrows' = parked.resThrows
  /\ playerAction' = parked.playerAction
  /\ transcription' = parked.transcription
  /\ gameResponse' = parked.gameResponse
  /\ transcribeCalls' = parked.transcribeCalls
  /\ generateCalls' = parked.generateCalls
  /\ speechCalls' = parked.speechCalls
  /\ transcribeResults' = parked.transcribeResults
  /\ generateResults' = parked.generateResults
  /\ speechResults' = parked.speechResults
  /\ hangs' = parked.hangs
  /\ sent' = parked.sent
  /\ unhandled' = parked.unhandled
  /\ UNCHANGED <<process, served, turn, fallbackUsed>>

Switch ==
  /\ pc # "handler"
  /\ parked' = Invocation
  /\ pc' = parked.pc
  /\ req' = parked.req
  /\ resThrows' = parked.resThrows
  /\ playerAction' = parked.playerAction
  /\ transcription' = parked.transcription
  /\ fallbackUsed' = parked.fallbackUsed
  /\ gameResponse' = parked.gameResponse
  /\ transcribeCalls' = parked.transcribeCalls
  /\ generateCalls' = parked.generateCalls
  /\ speechCalls' = parked.speechCalls
  /\ transcribeResults' = parked.transcribeResults
  /\ generateResults' = parked.generateResults
  /\ speechResults' = parked.speechResults
  /\ hangs' = parked.hangs
  /\ sent' = parked.sent
  /\ unhandled' = parked.unhandled
  /\ UNCHANGED <<process, served, turn>>

ConcurrentGameStates ==
  {JSString("new_game"), JSString("home_full_health"), JSString("forest_encounter")}
ConcurrentActions == {TextUndefined, TextOf(<<"a">>)}
ConcurrentAudio == {[t |-> "undefined", s |-> 0], [t |-> "string", s |-> 3]}

\* a client posts one of a few requests
ReceiveConcurrent ==
  /\ server = "listening"
  /\ pc = "idle"
  /\ \E g \in ConcurrentGameStates, a \in ConcurrentActions, d \in ConcurrentAudio :
       req' = [gameState |-> g, action |-> a, audioData |-> d]
  /\ pc' = "parse"
  /\ UNCHANGED <<process, served, turn, parked, resThrows, locals, calls, results, hangs, sent,
                 unhandled>>

\* the upstream outcomes of the two-request runs: a transcription that is
\* empty or "a"; a completion that is an error, the scene, or a record
\* without ttsText
ConcurrentTexts == {<<>>, <<"a">>}
ConcurrentCompletions ==
  {c \in Completions :
     \/ c.kind = "error"
     \/ c.kind = "json"
          /\ c.value \in {GeneratedScene, Without(GeneratedScene, "ttsText")}
          /\ c.types = TypesAsDeclared(c.value)}

ConcurrentOutcomes ==
  /\ \A n \in 1..Len(transcribeResults) :
       transcribeResults[n].text \in ConcurrentTexts
  /\ \A n \in 1..Len(generateResults) :
       generateResults[n].completion \in ConcurrentCompletions

NextConcurrent ==
  \/ ReceiveConcurrent
  \/ JsonParser
  \/ HandlerEntry
  \/ TranscribeReturns /\ ConcurrentOutcomes'
  \/ GenerateReturns /\ ConcurrentOutcomes'
  \/ SpeechReturns
  \/ InitialSpeechReturns
  \/ Switch

SpecConcurrent == Init /\ [][NextConcurrent]_vars

(***************************************************************************)
(* Process start.  server.ts imports the OpenAI services, whose client     *)
(* module runs first: it throws when OPENAI_KEY is not set, and then the   *)
(* body of server.ts, app.listen included, never runs.                     *)
(***************************************************************************)
EnvironmentKeys == {JSUndefined, JSString(""), JSString("sk-key")}

InitProcess ==
  /\ openaiKey \in EnvironmentKeys
  /\ server = "loading"
  /\ NoRequestYet

\* mutant: the client module does not look at the key
Start_KeyNotChecked ==
  /\ server = "loading"
  /\ server' = "listening"
  /\ UNCHANGED <<openaiKey, served, turn, parked, pc, req, resThrows, locals, calls,
                 results, hangs, sent, unhandled>>

Start ==
  /\ server = "loading"
  /\ server' = IF ~Truthy(openaiKey) THEN "exited" ELSE "listening"
  /\ UNCHANGED <<openaiKey, served, turn, parked, pc, req, resThrows, locals, calls,
                 results, hangs, sent, unhandled>>

NextProcess == Start \/ Next

SpecProcess == InitProcess /\ [][NextProcess]_vars

(***************************************************************************)
(* A session during a generation outage.  The client opens with a state    *)
(* label and an action, and after every response sends the response's      *)
(* newGameState as the gameState of its next request; every call of the    *)
(* chat completion throws.                                                 *)
(***************************************************************************)
MaxTurns == 3

SessionLabels == {g \in GameStates : g.t = "string" /\ g.s # ""}
SessionActions == {TextOf(<<"a">>)}
SessionAudio == {[t |-> "undefined", s |-> 0], [t |-> "string", s |-> 3]}

\* the first request of the session
ReceiveSession ==
  /\ Receive(0)
  /\ req'.gameState \in SessionLabels
  /\ req'.action \in SessionActions
  /\ req'.audioData \in SessionAudio

\* response.newGameState as the client reads it from the JSON body
NewGameStateOf(responses) ==
  IF Len(responses) = 1 /\ "newGameState" \in DOMAIN responses[1].body
  THEN JSString(responses[1].body.newGameState)
  ELSE JSUndefined

\* the next request of the session: a new invocation of the handler
NextTurn ==
  /\ pc = "done"
  /\ turn < MaxTurns
  /\ turn' = turn + 1
  /\ \E a \in SessionActions, d \in SessionAudio :
       req' = [gameState |-> NewGameStateOf(sent), action |-> a, audioData |-> d]
  /\ pc' = "parse"
  /\ resThrows' = 0
  /\ playerAction' = TextUndefined
  /\ transcription' = TextUndefined
  /\ fallbackUsed' = FALSE
  /\ gameResponse' = EmptyObject
  /\ transcribeCalls' = 0
  /\ generateCalls' = <<>>
  /\ speechCalls' = <<>>
  /\ transcribeResults' = <<>>
  /\ generateResults' = <<>>
  /\ speechResults' = <<>>
  /\ hangs' = <<>>
  /\ sent' = <<>>
  /\ unhandled' = FALSE
  /\ UNCHANGED <<process, served, parked>>

\* openai.chat.completions.create threw
GenerationOutage == generateResults[Len(generateResults)].completion.kind = "error"

NextOutage ==
  \/ ReceiveSession
  \/ JsonParser
  \/ HandlerEntry
  \/ TranscribeReturns
  \/ GenerateReturns /\ GenerationOutage'
  \/ SpeechReturns
  \/ InitialSpeechReturns
  \/ NextTurn

SpecOutage == Init /\ [][NextOutage]_vars

(***************************************************************************)
(* Vocabulary of the properties.                                           *)
(***************************************************************************)
Done == pc = "done"

\* the body parser handed the request to the route handler
ReachedHandler == BodyLength(req) <= JsonBodyLimit

\* gameState is absent or a string, as VoiceActionRequest declares it
StringState == req.gameState.t \in {"undefined", "string"}

Missing(v) == v.t = "undefined" \/ v = JSString("")

NewSession == req.gameState \in {JSString("initial"), JSString("new_game")}

NoActionText == req.action.t = "undefined" \/ req.action.s = <<>>

Blank(text) == \A i \in 1..Len(text) : text[i] = " "

Answered == Len(sent) = 1
Status == sent[1].status
Body == sent[1].body

SceneOf(body) == [k \in DOMAIN body \cap SceneKeys |-> body[k]]

\* the table entry of a label, the home_full_health entry for an unmapped one
TableEntry(label) ==
  IF label = "home_full_health" THEN HomeFullHealthEntry
  ELSE IF label = "forest_encounter" THEN ForestEncounterEntry
  ELSE HomeFullHealthEntry

NonEmptyField(body, key) ==
  /\ key \in DOMAIN body
  /\ IF key \in {"emojiScene", "options"} THEN body[key] # <<>> ELSE body[key] # ""

GenerationFailed == \E i \in 1..Len(generateResults) : ~generateResults[i].ok
GenerationSucceeded == \E i \in 1..Len(generateResults) : generateResults[i].ok
TranscriptionThrew == \E i \in 1..Len(transcribeResults) : ~transcribeResults[i].ok
TranscriptionBlank ==
  \E i \in 1..Len(transcribeResults) :
    transcribeResults[i].ok /\ Blank(transcribeResults[i].text)

NoUpstreamCall == transcribeCalls = 0 /\ generateCalls = <<>> /\ speechCalls = <<>>

(***************************************************************************)
(* C1.  Whenever generateGameResponse fails for a request, the response    *)
(* has status 200, its five scene fields are those of the fallback table   *)
(* entry of the submitted gameState (the default entry when the label has  *)
(* no entry), and fallbackUsed is true.                                    *)
(***************************************************************************)
C1_FallbackSceneOnGenerationFailure ==
  (Done /\ StringState /\ GenerationFailed) =>
    /\ Answered
    /\ Status = 200
    /\ SceneOf(Body) = TableEntry(req.gameState.s)
    /\ "fallbackUsed" \in DOMAIN Body
    /\ Body.fallbackUsed = TRUE

(***************************************************************************)
(* C2.  The request { action: "go to the forest", gameState:               *)
(* "home_full_health" } with generation failing.                           *)
(***************************************************************************)
ForestRequest ==
  req = [gameState |-> JSString("home_full_health"),
         action |-> TextOf(GoToTheForest),
         audioData |-> [t |-> "undefined", s |-> 0]]

\* C2 as stated: the response is the forest encounter, newGameState
\* "combat_wolf", with 2 to 4 options and fallbackUsed true
C2_ForestExampleAsStated ==
  (Done /\ ForestRequest /\ GenerationFailed) =>
    /\ Answered
    /\ SceneKeys \subseteq DOMAIN Body
    /\ Body.newGameState = "combat_wolf"
    /\ Body.emojiScene = ForestEmojiScene
    /\ Len(Body.options) \in 2..4
    /\ Body.fallbackUsed = TRUE

\* C2 amended: the response is the home scene, newGameState
\* "home_full_health", with 2 to 4 options, status 200 and fallbackUsed true
C2_ForestExampleAnswersHomeScene ==
  (Done /\ ForestRequest /\ GenerationFailed) =>
    /\ Answered
    /\ Status = 200
    /\ SceneKeys \subseteq DOMAIN Body
    /\ Body.newGameState = "home_full_health"
    /\ Body.emojiScene = HomeEmojiScene
    /\ Len(Body.options) \in 2..4
    /\ Body.fallbackUsed = TRUE

C2_Witness == Done /\ ForestRequest /\ GenerationFailed /\ Answered

(***************************************************************************)
(* C3.  A request the handler receives without gameState (absent or empty) *)
(* is answered 400, and transcribeAudio, generateGameResponse and          *)
(* generateSpeech are never invoked for it.                                *)
(***************************************************************************)
C3_MissingGameStateRejected ==
  (ReachedHandler /\ Missing(req.gameState)) =>
    /\ NoUpstreamCall
    /\ Done => (Answered /\ Status = 400)

C3_Witness ==
  /\ Done /\ Answered /\ Status = 400
  /\ req.gameState = JSUndefined
  /\ TruthyAudio(req.audioData)
  /\ ~NoActionText

(***************************************************************************)
(* C4.  A request the handler receives with gameState "new_game" or        *)
(* "initial" is answered 200 with newGameState "home_full_health" and      *)
(* fallbackUsed false, whether generateSpeech succeeds or fails.           *)
(***************************************************************************)
C4_NewSessionOpensAtHome ==
  (Done /\ ReachedHandler /\ NewSession) =>
    /\ Answered
    /\ Status = 200
    /\ "newGameState" \in DOMAIN Body /\ Body.newGameState = "home_full_health"
    /\ "fallbackUsed" \in DOMAIN Body /\ Body.fallbackUsed = FALSE

\* generateSpeech failed for a new_game request
C4_Witness ==
  /\ Done /\ Answered
  /\ req.gameState = JSString("new_game")
  /\ Len(speechCalls) = 1
  /\ "audioData" \notin DOMAIN Body

(***************************************************************************)
(* C5.  Every request is answered by exactly one response, which is a      *)
(* scene response or an {error, details?} body with status 400 or 500.     *)
(***************************************************************************)
IsSceneResponse == SceneKeys \subseteq DOMAIN Body

IsErrorResponse ==
  /\ Status \in {400, 500}
  /\ "error" \in DOMAIN Body
  /\ DOMAIN Body \subseteq {"error", "details"}

C5_ExactlyOneWellFormedResponse ==
  (Done /\ ReachedHandler /\ StringState) =>
    (Answered /\ (IsSceneResponse \/ IsErrorResponse))

(***************************************************************************)
(* C6.  When audio was supplied, its transcription threw or was blank, and *)
(* the request has no action text, the response is 400 with the audio      *)
(* error and the cause in details.                                         *)
(***************************************************************************)
C6_AudioFailureWithoutTextIsClientError ==
  (Done /\ (TranscriptionThrew \/ TranscriptionBlank) /\ NoActionText) =>
    /\ Answered
    /\ Status = 400
    /\ DOMAIN Body = {"error", "details"}
    /\ Body.error = "Failed to process audio and no text fallback provided"
    /\ Body.details = IF TranscriptionThrew THEN TranscriptionErrorMessage
                      ELSE "Empty transcription"

\* a whitespace-only transcription and no action
C6_Witness ==
  /\ Done /\ Answered /\ Status = 400
  /\ TranscriptionBlank
  /\ \E i \in 1..Len(transcribeResults) : transcribeResults[i].text # <<>>
  /\ NoActionText

(***************************************************************************)
(* C7.  When audio and action text were supplied and transcription threw,  *)
(* generateGameResponse is called with the action text as the player       *)
(* action, and the response has fallbackUsed true.                         *)
(***************************************************************************)
C7_TextActionReplacesFailedAudio ==
  (StringState /\ TranscriptionThrew /\ ~NoActionText) =>
    /\ generateCalls = <<[playerAction |-> req.action,
                          currentGameState |-> req.gameState]>>
    /\ Done => /\ Answered
               /\ "fallbackUsed" \in DOMAIN Body
               /\ Body.fallbackUsed = TRUE

\* generation succeeded, so the flag comes from the input stage alone
C7_Witness ==
  /\ Done /\ Answered
  /\ TranscriptionThrew /\ ~NoActionText
  /\ GenerationSucceeded
  /\ Body.fallbackUsed = TRUE

(***************************************************************************)
(* C8.  A request outside the new-session path whose audioData decodes to  *)
(* more than 10 MiB is answered 400 and transcribeAudio is never invoked.  *)
(***************************************************************************)
C8_OversizedAudioAnswered400 ==
  (Done /\ ~NewSession /\ req.audioData.t = "string"
        /\ req.audioData.s > 10 * 1024 * 1024) =>
    (Answered /\ Status = 400 /\ transcribeCalls = 0)

(***************************************************************************)
(* C9.  Every response whose status is not 400 carries all five scene      *)
(* fields, present and non-empty.                                          *)
(***************************************************************************)
C9_RenderableUnlessClientError ==
  (Done /\ ReachedHandler /\ StringState /\ Answered /\ Status # 400) =>
    \A key \in SceneKeys : NonEmptyField(Body, key)

(***************************************************************************)
(* C10.  getFallbackResponse returns, for every string label, a record     *)
(* with all five fields: the label's own entry when the table maps it, the *)
(* home_full_health entry for every other label.                           *)
(***************************************************************************)
C10_FallbackLookupTotal ==
  (pc = "awaitSpeech" /\ StringState /\ GenerationFailed) =>
    /\ SceneKeys \subseteq DOMAIN gameResponse
    /\ gameResponse = TableEntry(req.gameState.s)

(***************************************************************************)
(* C11.  When generateSpeech fails on the normal path, the request is      *)
(* answered 200 with the scene fields and the fallbackUsed value that the  *)
(* input and generation stages determined, as when synthesis succeeds;     *)
(* audioData is absent.                                                    *)
(***************************************************************************)
SpeechFailed == \E i \in 1..Len(speechResults) : ~speechResults[i].ok
SpeechSucceeded == \E i \in 1..Len(speechResults) : speechResults[i].ok

\* the scene the stages before synthesis settled on
PipelineScene ==
  IF GenerationSucceeded
  THEN SceneOf(generateResults[Len(generateResults)].value)
  ELSE SceneOf(gameResponse)

\* the flag the stages before synthesis settled on
PipelineFlag == TranscriptionThrew \/ TranscriptionBlank \/ GenerationFailed

SceneAndFlagAsSettled ==
  /\ Answered
  /\ Status = 200
  /\ SceneOf(Body) = PipelineScene
  /\ "fallbackUsed" \in DOMAIN Body
  /\ Body.fallbackUsed = PipelineFlag

C11_SpeechFailureOnlyDropsAudio ==
  (Done /\ ~NewSession /\ speechResults # <<>>) =>
    /\ SceneAndFlagAsSettled
    /\ SpeechFailed => "audioData" \notin DOMAIN Body
    /\ SpeechSucceeded => "audioData" \in DOMAIN Body

\* synthesis failed after a successful generation from a transcription
C11_Witness ==
  /\ Done /\ Answered /\ ~NewSession
  /\ SpeechFailed
  /\ GenerationSucceeded
  /\ transcribeResults # <<>>
  /\ SceneKeys \subseteq DOMAIN Body

(***************************************************************************)
(* C12.  A response with status 500 (an error escaped the pipeline)        *)
(* carries the fallback table scene of the request's gameState (the        *)
(* default entry when the label is absent or unmapped) with fallbackUsed   *)
(* true, or else is the minimal {error, details} body.                     *)
(***************************************************************************)
C12_CatchAllAnswersFallbackScene ==
  (Done /\ StringState /\ Answered /\ Status = 500) =>
    \/ /\ SceneOf(Body) = TableEntry(req.gameState.s)
       /\ "fallbackUsed" \in DOMAIN Body
       /\ Body.fallbackUsed = TRUE
    \/ DOMAIN Body = {"error", "details"}

C14_FallbackSceneDeterminedByGameState ==
  /\ \A h1, h2 \in served : h1.gameState = h2.gameState => h1.scene = h2.scene
  /\ (Done /\ Answered /\ Status = 200 /\ GenerationFailed) =>
       \A h \in served : h.gameState = req.gameState => SceneOf(Body) = h.scene

\* the same gameState answered from the table a second time, after a request
\* with another gameState, with the opposite synthesis outcome
C14_Witness ==
  /\ Done /\ Answered /\ Status = 200 /\ GenerationFailed /\ SpeechFailed
  /\ req.gameState = JSString("forest_encounter")
  /\ \E h \in served : h.gameState = req.gameState
  /\ \E h \in served : h.gameState = JSString("home_full_health")

(***************************************************************************)
(* C15.  A request with a gameState that is not the new-session label and  *)
(* with neither audioData nor action (absent or empty) is answered 400,    *)
(* and no upstream operation is invoked for it.                            *)
(***************************************************************************)
NoAudioSupplied == req.audioData.t = "undefined" \/ req.audioData.s = 0

C15_NeitherInputRejected ==
  (ReachedHandler /\ ~Missing(req.gameState) /\ ~NewSession
     /\ NoAudioSupplied /\ NoActionText) =>
    /\ NoUpstreamCall
    /\ Done => /\ Answered
               /\ Status = 400
               /\ Body = [error |-> "Either audioData or action must be provided"]

\* both inputs present and empty
C15_Witness ==
  /\ Done /\ Answered /\ Status = 400
  /\ req.gameState = JSString("forest_encounter")
  /\ req.audioData = [t |-> "string", s |-> 0]
  /\ req.action = TextOf(<<>>)

(***************************************************************************)
(* C16.  Within one request transcribeAudio, generateGameResponse and      *)
(* generateSpeech are each invoked at most once, and each settles at most  *)
(* once: a stage that failed is not invoked again.                         *)
(***************************************************************************)
C16_EachStageAtMostOnce ==
  /\ transcribeCalls <= 1 /\ Len(transcribeResults) <= transcribeCalls
  /\ Len(generateCalls) <= 1 /\ Len(generateResults) <= Len(generateCalls)
  /\ Len(speechCalls) <= 1 /\ Len(speechResults) <= Len(speechCalls)

\* every stage failed once and the request was answered
C16_Witness ==
  /\ Done /\ Answered
  /\ TranscriptionThrew /\ GenerationFailed /\ SpeechFailed
  /\ transcribeCalls = 1 /\ Len(generateCalls) = 1 /\ Len(speechCalls) = 1

(***************************************************************************)
(* C17.  With two requests in flight and their stages interleaved in any   *)
(* order, each request is answered from its own gameState and its own      *)
(* upstream outcomes, as when it is processed alone: the status, scene,    *)
(* fallbackUsed, transcription and audioData of an answer owe nothing to   *)
(* the other request.                                                      *)
(***************************************************************************)
ThrewIn(i) == \E n \in 1..Len(i.transcribeResults) : ~i.transcribeResults[n].ok
HeardIn(i) == \E n \in 1..Len(i.transcribeResults) : i.transcribeResults[n].ok
BlankIn(i) ==
  \E n \in 1..Len(i.transcribeResults) :
    i.transcribeResults[n].ok /\ Blank(i.transcribeResults[n].text)
FailedIn(i) == \E n \in 1..Len(i.generateResults) : ~i.generateResults[n].ok
SpokenIn(i) == \E n \in 1..Len(i.speechResults) : i.speechResults[n].ok

OwnScene(i) ==
  IF FailedIn(i) THEN TableEntry(i.req.gameState.s)
  ELSE SceneOf(i.generateResults[1].value)

AnsweredAsAlone(i) ==
  i.pc = "done" =>
    /\ Len(i.sent) = 1
    /\ LET status == i.sent[1].status
           body == i.sent[1].body
       IN IF i.req.gameState \in {JSString("initial"), JSString("new_game")}
          THEN /\ status = 200
               /\ SceneOf(body) = OpeningScene
               /\ body.fallbackUsed = FALSE
               /\ "transcription" \notin DOMAIN body
               /\ "audioData" \in DOMAIN body <=> SpokenIn(i)
          ELSE IF i.generateResults = <<>>
          THEN status = 400 /\ "error" \in DOMAIN body
          ELSE /\ status = 200
               /\ SceneOf(body) = OwnScene(i)
               /\ body.fallbackUsed = (ThrewIn(i) \/ BlankIn(i) \/ FailedIn(i))
               /\ "transcription" \in DOMAIN body <=> HeardIn(i)
               /\ HeardIn(i) => body.transcription = i.transcribeResults[1].text
               /\ "audioData" \in DOMAIN body <=> SpokenIn(i)

C17_InterleavedRequestsIndependent ==
  AnsweredAsAlone(Invocation) /\ AnsweredAsAlone(parked)

\* a request is answered without fallback while the other, whose
\* transcription failed and which runs on its action text, awaits synthesis
C17_Witness ==
  /\ Done /\ Answered /\ Status = 200
  /\ Body.fallbackUsed = FALSE
  /\ "transcription" \in DOMAIN Body
  /\ parked.pc = "awaitSpeech"
  /\ parked.fallbackUsed
  /\ ThrewIn(parked)

(***************************************************************************)
(* C18.  A successful generateGameResponse returns a record whose five     *)
(* fields are present and non-empty, options being a non-empty sequence;   *)
(* a completion that is an error, empty or unparseable, or whose record    *)
(* lacks a required field or holds an empty one, makes the call fail.      *)
(***************************************************************************)
Complete(record) == \A key \in SceneKeys : NonEmptyField(record, key)

C18_SuccessfulGenerationIsComplete ==
  \A n \in 1..Len(generateResults) :
    LET r == generateResults[n]
    IN /\ r.ok => Complete(r.value)
       /\ (r.completion.kind # "json" \/ ~Complete(r.completion.value)) => ~r.ok

(***************************************************************************)
(* C19.  A completion whose record has every field but one of a type       *)
(* other than the declared one makes generateGameResponse fail.            *)
(***************************************************************************)
IllTyped(completion) ==
  /\ completion.kind = "json"
  /\ \E key \in DOMAIN completion.types :
       completion.types[key] # DeclaredTypes[key]

C19_IllTypedOutputRejected ==
  \A n \in 1..Len(generateResults) :
    IllTyped(generateResults[n].completion) => ~generateResults[n].ok

(***************************************************************************)
(* C20.  A completion whose record is complete and typed as declared but   *)
(* has fewer than 2 or more than 4 options, or an emoji count outside      *)
(* 6..12, is returned unchanged by generateGameResponse; the response is   *)
(* 200 with that record's scene, and fallbackUsed tells only whether the   *)
(* input stage fell back.                                                  *)
(***************************************************************************)
BreaksCounts(completion) ==
  /\ completion.kind = "json"
  /\ ~IllTyped(completion)
  /\ Complete(completion.value)
  /\ \/ Len(completion.value.options) \notin 2..4
     \/ Len(completion.value.emojiScene) \notin 6..12

C20_CountViolationsPass ==
  \A n \in 1..Len(generateResults) :
    LET r == generateResults[n]
    IN (StringState /\ BreaksCounts(r.completion)) =>
         /\ r.ok
         /\ r.value = r.completion.value
         /\ Done => /\ Answered
                    /\ Status = 200
                    /\ SceneOf(Body) = r.completion.value
                    /\ Body.fallbackUsed = (TranscriptionThrew \/ TranscriptionBlank)

\* a record with five options answered a text action
C20_Witness ==
  /\ Done /\ Answered /\ Status = 200
  /\ generateResults # <<>> /\ BreaksCounts(generateResults[1].completion)
  /\ Len(Body.options) = 5
  /\ Body.fallbackUsed = FALSE

(***************************************************************************)
(* C21.  When OPENAI_KEY is absent (unset or empty) at process start, the  *)
(* server never listens: no request is received, no response is written    *)
(* and no upstream call is made.                                           *)
(***************************************************************************)
C21_NoKeyNoServer ==
  Missing(openaiKey) =>
    /\ server # "listening"
    /\ pc = "idle" /\ req = NoRequest
    /\ sent = <<>>
    /\ NoUpstreamCall

\* module initialization failed for lack of the key
C21_Witness == server = "exited" /\ openaiKey = JSUndefined

(***************************************************************************)
(* C22.  A 200 response carries transcription exactly when audio was       *)
(* transcribed to text that is not blank (and so became the player         *)
(* action); it is absent when the action text replaced the audio and when  *)
(* no audio was supplied.                                                  *)
(***************************************************************************)
TranscriptionUsed ==
  \E n \in 1..Len(transcribeResults) :
    transcribeResults[n].ok /\ ~Blank(transcribeResults[n].text)

C22_TranscriptionOnlyWhenUsed ==
  (Done /\ Answered /\ Status = 200) =>
    ("transcription" \in DOMAIN Body <=> TranscriptionUsed)

(***************************************************************************)
(* C23.  For a request the handler receives with gameState "new_game" or   *)
(* "initial", transcribeAudio and generateGameResponse are never invoked,  *)
(* whatever action or audioData it carries; generateSpeech is called once  *)
(* with the opening text, and the response is 200 with the opening scene,  *)
(* no transcription, and audio when synthesis succeeded.                   *)
(***************************************************************************)
C23_NewSessionSkipsInputAndGeneration ==
  (ReachedHandler /\ NewSession) =>
    /\ transcribeCalls = 0
    /\ generateCalls = <<>>
    /\ Done => /\ Answered
               /\ Status = 200
               /\ SceneOf(Body) = OpeningScene
               /\ "transcription" \notin DOMAIN Body
               /\ speechCalls = <<JSString(OpeningScene.ttsText)>>
               /\ "audioData" \in DOMAIN Body <=> SpeechSucceeded

\* an "initial" request carrying both audio and an action
C23_Witness ==
  /\ Done /\ Answered
  /\ req.gameState = JSString("initial")
  /\ req.audioData = [t |-> "string", s |-> 3]
  /\ ~NoActionText
  /\ "audioData" \in DOMAIN Body

(***************************************************************************)
(* C24.  Within a request, generateGameResponse is invoked only after      *)
(* transcribeAudio has settled, and generateSpeech only after              *)
(* generateGameResponse has settled; generateSpeech receives the ttsText   *)
(* of the adopted record: the generator's on success, the fallback table   *)
(* entry's on failure.                                                     *)
(***************************************************************************)
MappedOrPlainLabel ==
  req.gameState \in {JSString("home_full_health"), JSString("forest_encounter"),
                     JSString("combat_wolf")}

C24_StagesInOrder ==
  /\ generateCalls # <<>> => Len(transcribeResults) = transcribeCalls
  /\ (speechCalls # <<>> /\ ~NewSession) =>
       /\ Len(generateCalls) = 1 /\ Len(generateResults) = 1
       /\ Len(transcribeResults) = transcribeCalls
       /\ GenerationSucceeded =>
            speechCalls = <<JSString(generateResults[1].completion.value.ttsText)>>
       /\ (GenerationFailed /\ MappedOrPlainLabel) =>
            speechCalls = <<JSString(TableEntry(req.gameState.s).ttsText)>>
       /\ GenerationFailed =>
            speechCalls = <<IF "ttsText" \in DOMAIN gameResponse
                            THEN JSString(gameResponse.ttsText) ELSE JSUndefined>>

\* all three stages ran, and the table entry's text was spoken
C24_Witness ==
  /\ Done /\ Answered
  /\ transcribeCalls = 1 /\ Len(transcribeResults) = 1
  /\ GenerationFailed
  /\ req.gameState = JSString("forest_encounter")
  /\ speechCalls = <<JSString(ForestEncounterEntry.ttsText)>>
  /\ SpeechSucceeded

(***************************************************************************)
(* C25.  A transcription that is empty or whitespace only takes the        *)
(* branch of a failed transcription: with an action text,                  *)
(* generateGameResponse receives that text and fallbackUsed is true;       *)
(* without one, the request is answered 400 and generateGameResponse is    *)
(* not invoked.  The transcribed text is never the playerAction argument.  *)
(***************************************************************************)
C25_BlankTranscriptionIsFailure ==
  TranscriptionBlank =>
    IF NoActionText
    THEN /\ generateCalls = <<>>
         /\ Done /\ Answered /\ Status = 400
    ELSE /\ generateCalls = <<[playerAction |-> req.action,
                               currentGameState |-> req.gameState]>>
         /\ fallbackUsed
         /\ (Done /\ Answered /\ Status = 200) => Body.fallbackUsed = TRUE

\* whitespace was heard, the action text was used, generation succeeded
C25_Witness ==
  /\ Done /\ Answered /\ Status = 200
  /\ transcribeResults = <<[ok |-> TRUE, text |-> <<" ">>]>>
  /\ GenerationSucceeded
  /\ Body.fallbackUsed = TRUE

(***************************************************************************)
(* C26.  Every invocation of generateGameResponse receives a playerAction  *)
(* that is a non-empty text, the request's action or the transcription,    *)
(* and the request's gameState as it was submitted.                        *)
(***************************************************************************)
C26_GeneratorArguments ==
  \A n \in 1..Len(generateCalls) :
    LET call == generateCalls[n]
    IN /\ call.playerAction.t = "string"
       /\ Len(call.playerAction.s) > 0
       /\ \/ call.playerAction = req.action
          \/ \E m \in 1..Len(transcribeResults) :
               /\ transcribeResults[m].ok
               /\ call.playerAction.s = transcribeResults[m].text
       /\ call.currentGameState = req.gameState

\* the transcription is the argument, with a gameState the table does not map
C26_Witness ==
  /\ generateCalls # <<>>
  /\ req.gameState = JSString("combat_wolf")
  /\ generateCalls[1].playerAction = TextOf(GoToTheForest)
  /\ req.action # TextOf(GoToTheForest)
  /\ generateCalls[1].currentGameState = JSString("combat_wolf")

\* transcribeAudio returned a text that is not blank
TranscriptionHeard ==
  \E n \in 1..Len(transcribeResults) :
    transcribeResults[n].ok /\ ~Blank(transcribeResults[n].text)

(***************************************************************************)
(* C27.  When transcription returns a text that is not blank, the          *)
(* generator is invoked once with that text as playerAction, whatever the  *)
(* request's action is, and fallbackUsed is false unless generation has    *)
(* failed since.                                                           *)
(***************************************************************************)
C27_HeardTextIsThePlayerAction ==
  TranscriptionHeard =>
    /\ generateCalls =
         <<[playerAction |-> TextOf(transcribeResults[1].text),
            currentGameState |-> req.gameState]>>
    /\ fallbackUsed => GenerationFailed

\* heard text and typed action differ, and the request is answered unflagged
C27_Witness ==
  /\ Done /\ Answered /\ Status = 200
  /\ TranscriptionHeard
  /\ req.action = TextOf(<<"a">>)
  /\ transcribeResults[1].text # <<"a">>
  /\ generateCalls[1].playerAction = TextOf(transcribeResults[1].text)
  /\ Body.fallbackUsed = FALSE

\* audio was supplied and the generator was not given a heard text
InputFellBack == ~NoAudioSupplied /\ ~TranscriptionHeard

(***************************************************************************)
(* C28.  When generateGameResponse succeeded, the request is answered with *)
(* status 200, the five scene fields of the response are the five fields   *)
(* of the record the generator returned, and fallbackUsed is true exactly  *)
(* when the input stage fell back from the audio to the action text.       *)
(***************************************************************************)
C28_GeneratedSceneIsAnswered ==
  (Done /\ GenerationSucceeded) =>
    /\ Answered
    /\ Status = 200
    /\ SceneKeys \subseteq DOMAIN Body
    /\ \A key \in SceneKeys :
         Body[key] = generateResults[Len(generateResults)].value[key]
    /\ "fallbackUsed" \in DOMAIN Body
    /\ Body.fallbackUsed = InputFellBack

\* a record with five options answers a request whose transcription threw
C28_Witness ==
  /\ Done /\ Answered /\ Status = 200
  /\ GenerationSucceeded
  /\ generateResults[1].value = FiveOptions
  /\ Body.options = FiveOptions.options
  /\ TranscriptionThrew
  /\ Body.fallbackUsed = TRUE

(***************************************************************************)
(* C29.  In a 200 response outside the new-session path fallbackUsed is    *)
(* true exactly when a substitution happened in the request: the action    *)
(* text stood in for the audio, or the table entry stood in for the        *)
(* generator's record.  A failed synthesis does not enter into it.         *)
(***************************************************************************)
C29_FlagIffSubstitution ==
  (Done /\ Answered /\ Status = 200 /\ ~NewSession) =>
    /\ "fallbackUsed" \in DOMAIN Body
    /\ Body.fallbackUsed = (InputFellBack \/ GenerationFailed)

\* synthesis failed and nothing was substituted: the flag is false
C29_Witness ==
  /\ Done /\ Answered /\ Status = 200 /\ ~NewSession
  /\ SpeechFailed
  /\ ~InputFellBack /\ ~GenerationFailed
  /\ "audioData" \notin DOMAIN Body
  /\ Body.fallbackUsed = FALSE

(***************************************************************************)
(* C30.  A request answered with status 400 has had neither                *)
(* generateGameResponse nor generateSpeech invoked for it, and the body    *)
(* has an error member, possibly a details member, and nothing else.       *)
(***************************************************************************)
C30_BadRequestTouchesNoGenerator ==
  (Answered /\ Status = 400) =>
    /\ generateCalls = <<>>
    /\ speechCalls = <<>>
    /\ generateResults = <<>>
    /\ speechResults = <<>>
    /\ "error" \in DOMAIN Body
    /\ DOMAIN Body \subseteq {"error", "details"}

\* a 400 after transcribeAudio was called and threw
C30_Witness ==
  /\ Done /\ Answered /\ Status = 400
  /\ transcribeCalls = 1
  /\ TranscriptionThrew
  /\ DOMAIN Body = {"error", "details"}

(***************************************************************************)
(* C31.  In a session played during a generation outage, every response    *)
(* from the second on is the 200 response with the home_full_health entry  *)
(* of the fallback table, and from the third request on the label the      *)
(* client sends is home_full_health.                                       *)
(***************************************************************************)
C31_OutageSessionSettlesAtHome ==
  /\ (turn >= 1 /\ Done) =>
       /\ Answered
       /\ Status = 200
       /\ SceneOf(Body) = HomeFullHealthEntry
  /\ (turn >= 2) => req.gameState = JSString("home_full_health")

\* the statement for the sessions whose responses all carry a newGameState
C31_HoldsWhenLabelIsReturned ==
  (turn >= 1 /\ req.gameState # JSUndefined) =>
    /\ Done =>
         /\ Answered
         /\ Status = 200
         /\ SceneOf(Body) = HomeFullHealthEntry
    /\ (turn >= 2) => req.gameState = JSString("home_full_health")

\* a session from forest_encounter has reached its third response
C31_ForestSessionAtHome ==
  /\ turn = 2 /\ Done /\ Answered /\ Status = 200
  /\ served = {}
  /\ req.gameState = JSString("home_full_health")
  /\ Body.newGameState = "home_full_health"

\* the response holds key with this value, or lacks key when there is none
MemberIs(key, present, value) ==
  IF present THEN key \in DOMAIN Body /\ Body[key] = value
  ELSE key \notin DOMAIN Body

\* transcribeAudio returned a text for this request, blank or not
TextReturned ==
  transcribeResults # <<>> /\ transcribeResults[Len(transcribeResults)].ok

ReturnedText ==
  IF TextReturned THEN transcribeResults[Len(transcribeResults)].text ELSE <<>>

(***************************************************************************)
(* C32.  In every response that carries a scene, audioData, transcription  *)
(* and fallbackUsed are what the handler computed for the request: the     *)
(* synthesised audio if synthesis succeeded, the text transcribeAudio      *)
(* returned if it returned one, and the flag of the substitutions made.    *)
(* Members of those names in the generator's or the table's record do not  *)
(* reach the response.                                                     *)
(***************************************************************************)
C32_HandlerMembersNotOverridden ==
  (Done /\ Answered /\ Status \in {200, 500} /\ ~IsErrorResponse) =>
    IF Status = 500
    THEN /\ MemberIs("fallbackUsed", TRUE, TRUE)
         /\ MemberIs("audioData", FALSE, "")
         /\ MemberIs("transcription", FALSE, <<>>)
    ELSE /\ MemberIs("fallbackUsed", TRUE,
                     ~NewSession /\ (InputFellBack \/ GenerationFailed))
         /\ MemberIs("audioData", SpeechSucceeded, SpeechBase64)
         /\ MemberIs("transcription", TextReturned, ReturnedText)

\* the generator's record has the three members; synthesis failed and no
\* audio was sent, so the handler's audioData and transcription are undefined
C32_Witness ==
  /\ Done /\ Answered /\ Status = 200
  /\ GenerationSucceeded
  /\ generateResults[1].value = SceneWithResponseKeys
  /\ gameResponse = SceneWithResponseKeys
  /\ SpeechFailed
  /\ NoAudioSupplied
  /\ DOMAIN Body = SceneKeys \cup {"fallbackUsed"}
  /\ Body.fallbackUsed = FALSE

====
